---- MODULE Spec2Model ----
(***************************************************************************)
(* Model of src/main.py: the resume-to-search-filter pipeline.             *)
(*                                                                         *)
(* One script run of main() is a walk of pc through the stages             *)
(*   idle -> uploaded -> extracted -> display -> filters -> widgets        *)
(*        -> edits -> button -> done                                       *)
(* An exception that no handler of the code catches stops the run where    *)
(* it is raised and is kept in exc.  Strings are sequences of characters,  *)
(* Python lists are sequences, Python dicts are functions whose domain is  *)
(* the set of keys, and an optional value is <<>> (None) or <<v>>.         *)
(* Objects that main() holds by reference (the analysis dict and its       *)
(* copy) live in heap and are named by their index; 0 is None.             *)
(***************************************************************************)
EXTENDS Integers, Sequences, FiniteSets, TLC

VARIABLES
    pc,               \* position of the script run inside main()
    exc,              \* "none", or the exception that escaped main()
    uploaded_file,    \* <<>> or <<document>>: value of st.file_uploader
    tmp_file_exists,  \* the file at this run's tmp_file_path exists on disk
    resume_text,      \* <<>> (None) or <<string>>: result of extract_text_from_pdf
    heap,             \* the dict objects main() holds by reference
    resume_analysis,  \* 0 (None) or the heap index of the analysis dict
    search_params,    \* 0 (not yet bound) or the heap index of the filter dict
    defaults,         \* [skills, experience, job_titles]: default_* of lines 182-184
    selected,         \* [skills, experience, job_titles]: widget return values
    completion_calls, \* calls of model.generate_content made in this run
    search_requests,  \* the "q" payloads POSTed in this run
    response,         \* <<>> or <<response>> received by search_jobs
    jobs,             \* <<>> (None) or <<jobs_data>>: result of search_jobs
    ui                \* what this run has written to the page, in order

vars == <<pc, exc, uploaded_file, tmp_file_exists, resume_text, heap,
          resume_analysis, search_params, defaults, selected,
          completion_calls, search_requests, response, jobs, ui>>

(***************************************************************************)
(* Bounds of the model.                                                    *)
(***************************************************************************)
MaxPages == 2
MaxSkills == 4
MaxTitles == 1
MaxHits == 1

(***************************************************************************)
(* Strings.                                                                *)
(***************************************************************************)
None == <<>>
Some(x) == <<x>>

EmptyStr == <<>>
COMMA == <<",">>
JUNIOR == <<"j", "u", "n", "i", "o", "r">>
MID_LEVEL == <<"m", "i", "d", "-", "l", "e", "v", "e", "l">>
SENIOR == <<"s", "e", "n", "i", "o", "r">>
SeniorMixed == <<"S", "e", "n", "i", "o", "r">>
EXPERT == <<"e", "x", "p", "e", "r", "t">>
NA == <<"N", "/", "A">>

UpperLetters == <<"A", "B", "C", "D", "E", "F", "G", "H", "I", "J", "K", "L", "M",
                  "N", "O", "P", "Q", "R", "S", "T", "U", "V", "W", "X", "Y", "Z">>
LowerLetters == <<"a", "b", "c", "d", "e", "f", "g", "h", "i", "j", "k", "l", "m",
                  "n", "o", "p", "q", "r", "s", "t", "u", "v", "w", "x", "y", "z">>

\* str.lower() on one character
LowerChar(c) ==
    IF \E i \in 1..Len(UpperLetters) : UpperLetters[i] = c
    THEN LowerLetters[CHOOSE i \in 1..Len(UpperLetters) : UpperLetters[i] = c]
    ELSE c

\* str.lower()
PyLower(s) == [i \in 1..Len(s) |-> LowerChar(s[i])]

\* sep.join(list)
RECURSIVE PyJoin(_, _)
PyJoin(sep, l) ==
    IF l = <<>> THEN EmptyStr
    ELSE IF Len(l) = 1 THEN l[1]
    ELSE l[1] \o sep \o PyJoin(sep, Tail(l))

PySliceOffByOne(l, n) == SubSeq(l, 1, IF Len(l) < n + 1 THEN Len(l) ELSE n + 1)

\* list[:n]
PySlice(l, n) == SubSeq(l, 1, IF Len(l) < n THEN Len(l) ELSE n)

\* list.index(x) raises ValueError when x is not in the list
IndexRaises(l, x) == ~ \E i \in 1..Len(l) : l[i] = x

(***************************************************************************)
(* Dicts.                                                                  *)
(***************************************************************************)
EmptyDict == [k \in {} |-> <<>>]

\* d.get(k, dflt)
DictGet(d, k, dflt) == IF k \in DOMAIN d THEN d[k] ELSE dflt

\* d[k] = v
DictSet(d, k, v) == [x \in (DOMAIN d) \cup {k} |-> IF x = k THEN v ELSE d[x]]

\* truth value of a dict reference: None and {} are false
TruthyDict(h, r) == r # 0 /\ DOMAIN h[r] # {}

TruthyTextNotNone(t) == t # None

\* truth value of an optional string: None and "" are false
TruthyText(t) == t # None /\ t[1] # EmptyStr

(***************************************************************************)
(* What a run writes to the page.                                          *)
(***************************************************************************)
Error(text) == [kind |-> "error", text |-> text]
Warning(text) == [kind |-> "warning", text |-> text]
Info(text) == [kind |-> "info", text |-> text]
Write(text, data) == [kind |-> "write", text |-> text, data |-> data]
Widget(kind, label, options) == [kind |-> kind, text |-> label, options |-> options]

Shown(kind, text) == \E i \in 1..Len(ui) : ui[i].kind = kind /\ ui[i].text = text

(***************************************************************************)
(* extract_text_from_pdf.  A document is a byte stream that is or is not a *)
(* PDF, with pages whose text decodes ("text") or fails to ("bad").        *)
(***************************************************************************)
PageKinds == {"text", "bad"}

PageSeqs == UNION {[1..n -> PageKinds] : n \in 0..MaxPages}

Documents == {[valid |-> TRUE, pages |-> p] : p \in PageSeqs}
                 \cup {[valid |-> FALSE, pages |-> <<>>]}

\* page.extract_text() of a page that decodes
PageText == <<"x">>

\* PyPDF2.PdfReader(file) or page.extract_text() raises
ExtractRaises(doc) ==
    \/ ~doc.valid
    \/ \E i \in 1..Len(doc.pages) : doc.pages[i] = "bad"

\* text += page.extract_text() over pdf_reader.pages
RECURSIVE ConcatPages(_)
ConcatPages(pages) ==
    IF pages = <<>> THEN EmptyStr ELSE PageText \o ConcatPages(Tail(pages))

\* the file of tmp_file_path after the call: os.unlink is reached only when
\* nothing raised between NamedTemporaryFile(delete=False) and line 34
TmpFileLeft(doc) == ExtractRaises(doc)

\* return value of extract_text_from_pdf
ExtractedText(doc) == IF ExtractRaises(doc) THEN None ELSE Some(ConcatPages(doc.pages))

(***************************************************************************)
(* analyze_resume_with_gemini.  A reply is a sequence of tokens: prose,    *)
(* an opening brace, a closing brace, or one "key": value member.          *)
(***************************************************************************)
ProfileKeys == {"skills", "experience_level", "job_titles", "industry", "preferred_location"}
KeyOrder == <<"skills", "experience_level", "job_titles", "industry", "preferred_location">>

Skill(i) == <<LowerLetters[i]>>
Title(i) == <<"t", LowerLetters[i]>>
SkillLists == {[i \in 1..n |-> Skill(i)] : n \in 0..MaxSkills}
TitleLists == {[i \in 1..n |-> Title(i)] : n \in 0..MaxTitles}
ExperienceInputs == {EmptyStr, SeniorMixed, MID_LEVEL, EXPERT}
IndustryInputs == {<<"i", "t">>}
LocationInputs == {<<"n", "y">>}

FullProfiles ==
    [skills : SkillLists, experience_level : ExperienceInputs, job_titles : TitleLists,
     industry : IndustryInputs, preferred_location : LocationInputs]

Restrict(d, K) == [k \in K |-> d[k]]

\* JSON objects the completion service may put in its reply: any of the five keys may be missing
Profiles == {Restrict(p, K) : p \in FullProfiles, K \in SUBSET ProfileKeys}

LBRACE == [tok |-> "{"]
RBRACE == [tok |-> "}"]
PROSE == [tok |-> "prose"]
Member(k, v) == [tok |-> "member", key |-> k, value |-> v]

RECURSIVE Members(_, _)
Members(d, keys) ==
    IF keys = <<>> THEN <<>>
    ELSE (IF Head(keys) \in DOMAIN d THEN <<Member(Head(keys), d[Head(keys)])>> ELSE <<>>)
             \o Members(d, Tail(keys))

JsonText(d) == <<LBRACE>> \o Members(d, KeyOrder) \o <<RBRACE>>

Replies ==
    {JsonText(p) : p \in Profiles}
        \cup {<<PROSE>> \o JsonText(p) \o <<PROSE>> : p \in Profiles}
        \cup { <<>>, <<PROSE>>, <<LBRACE>>, <<RBRACE, PROSE, LBRACE>>,
               <<LBRACE, PROSE, RBRACE>>,
               <<LBRACE, Member("skills", <<>>), RBRACE, PROSE, RBRACE>>,
               <<LBRACE, LBRACE, Member("skills", <<>>), RBRACE>> }

Positions(reply, t) == {i \in 1..Len(reply) : reply[i].tok = t}
Min(S) == CHOOSE x \in S : \A y \in S : x <= y
Max(S) == CHOOSE x \in S : \A y \in S : x >= y

\* re.search(r"\{.*\}", text, re.DOTALL): the span from the first "{" to the last "}"
RegexSearch(reply) ==
    IF Positions(reply, "{") # {} /\ Positions(reply, "}") # {}
           /\ Min(Positions(reply, "{")) < Max(Positions(reply, "}"))
    THEN Some(SubSeq(reply, Min(Positions(reply, "{")), Max(Positions(reply, "}"))))
    ELSE None

\* json.loads raises JSONDecodeError: something else than members between the braces
JsonLoadsRaises(span) == \E i \in 2..(Len(span) - 1) : span[i].tok # "member"

\* json.loads of an object: the members by key, the last of a repeated key winning
JsonLoads(span) ==
    LET at(k) == {i \in 2..(Len(span) - 1) : span[i].key = k}
        keys == {span[i].key : i \in 2..(Len(span) - 1)}
    IN  [k \in keys |-> span[Max(at(k))].value]

\* outcome of analyze_resume_with_gemini on a reply: the dict returned, or None
AnalysisResult(reply) ==
    IF RegexSearch(reply) = None THEN None
    ELSE IF JsonLoadsRaises(RegexSearch(reply)[1]) THEN None
    ELSE Some(JsonLoads(RegexSearch(reply)[1]))

\* what analyze_resume_with_gemini writes to the page
AnalysisMessages(reply) ==
    IF RegexSearch(reply) = None
    THEN <<Error("Could not extract JSON-like structure from Gemini response."),
           Write("Raw response:", reply)>>
    ELSE IF JsonLoadsRaises(RegexSearch(reply)[1])
    THEN <<Error("Error parsing Gemini response. The response might not be in valid JSON format."),
           Write("Raw response:", reply)>>
    ELSE <<>>

(***************************************************************************)
(* main(), lines 160-174: the analysis is displayed.                       *)
(***************************************************************************)
DisplayedKeys == <<"skills", "experience_level", "job_titles", "industry">>

\* resume_analysis[k] raises KeyError for one of the four keys read unguarded
DisplayRaises(d) == \E i \in 1..Len(DisplayedKeys) : DisplayedKeys[i] \notin DOMAIN d

RECURSIVE DisplayWrites(_, _)
DisplayWrites(d, keys) ==
    IF keys = <<>>
    THEN IF "preferred_location" \in DOMAIN d
         THEN <<Write("**Preferred Location:**", d["preferred_location"])>>
         ELSE <<>>
    ELSE IF Head(keys) \notin DOMAIN d THEN <<>>
    ELSE <<Write(Head(keys), d[Head(keys)])>> \o DisplayWrites(d, Tail(keys))

(***************************************************************************)
(* main(), lines 179-208: the search filters.                              *)
(***************************************************************************)
ExperienceOptions == <<JUNIOR, MID_LEVEL, SENIOR>>

\* dict.copy(): a new object with the same items
DictAlias(h, r) == [heap |-> h, ref |-> r]
DictCopy(h, r) == [heap |-> Append(h, h[r]), ref |-> Len(h) + 1]

\* resume_analysis.copy() if resume_analysis else {}
NewSearchParams(h, r) ==
    IF TruthyDict(h, r) THEN DictCopy(h, r)
    ELSE [heap |-> Append(h, EmptyDict), ref |-> Len(h) + 1]


\* search_params.get('skills', [])[:3] if 'skills' in search_params else []
DefaultSkills(sp) ==
    IF "skills" \in DOMAIN sp THEN PySlice(DictGet(sp, "skills", <<>>), 3) ELSE <<>>

DefaultExperienceBlank(sp) ==
    IF "experience_level" \in DOMAIN sp
    THEN PyLower(DictGet(sp, "experience_level", EmptyStr)) ELSE EmptyStr

\* search_params.get('experience_level', '').lower() if 'experience_level' in search_params else 'junior'
DefaultExperience(sp) ==
    IF "experience_level" \in DOMAIN sp
    THEN PyLower(DictGet(sp, "experience_level", EmptyStr)) ELSE JUNIOR

\* search_params.get('job_titles', []) if 'job_titles' in search_params else []
DefaultJobTitles(sp) ==
    IF "job_titles" \in DOMAIN sp THEN DictGet(sp, "job_titles", <<>>) ELSE <<>>

\* what a multiselect can return: the options the user keeps, in the options' order
RECURSIVE Selections(_)
Selections(options) ==
    IF options = <<>> THEN {<<>>}
    ELSE Selections(Tail(options))
             \cup {<<Head(options)>> \o s : s \in Selections(Tail(options))}

\* lines 206-208: the three assignments into search_params
UpdatedParams(sp, sel) ==
    DictSet(DictSet(DictSet(sp, "skills", sel.skills),
                    "experience_level", sel.experience),
            "job_titles", sel.job_titles)

(***************************************************************************)
(* search_jobs.  A response is a status and a body; status 0 stands for a  *)
(* request that got no response.  A body either parses as JSON or not.     *)
(***************************************************************************)
HITS == <<"h", "i", "t", "s">>

JNull == [t |-> "null"]
JNumber == [t |-> "number"]
JStr(s) == [t |-> "string", s |-> s]
JList(items) == [t |-> "list", items |-> items]
JObj(fields) == [t |-> "object", fields |-> fields]

HitKeys == {"title", "description", "websiteName", "locationName", "created_at", "url"}

Hit(K) == JObj([k \in K |-> JStr(<<"v">>)])

HitKinds == { Hit(HitKeys), Hit({"title", "description"}),
              Hit({"description", "websiteName"}), Hit({"title", "url"}) }

\* hits arrays of up to MaxHits entries: complete postings, then one of any kind
HitLists ==
    {<<>>} \cup {[i \in 1..n |-> IF i < n THEN Hit(HitKeys) ELSE k] :
                     n \in 1..MaxHits, k \in HitKinds}

JsonBodies ==
    { JNull, JNumber, JStr(HITS), JList(<<>>), JList(<<JStr(HITS)>>),
      JObj(EmptyDict), JObj([k \in {"results"} |-> JList(<<>>)]),
      JObj([k \in {"hits"} |-> JNull]) }
        \cup {JObj([k \in {"hits"} |-> JList(l)]) : l \in HitLists}

TextBody == [json |-> None]
JsonBody(v) == [json |-> Some(v)]

Responses ==
    { [status |-> 0, body |-> TextBody],
      [status |-> 404, body |-> TextBody],
      [status |-> 500, body |-> JsonBody(JObj(EmptyDict))],
      [status |-> 200, body |-> TextBody] }
        \cup {[status |-> 200, body |-> JsonBody(v)] : v \in JsonBodies}

\* ','.join(skills), then ',' + ','.join(job_titles) when job_titles is there and non-empty
SearchQuery(sp) ==
    LET skills_part == PyJoin(COMMA, DictGet(sp, "skills", <<>>))
    IN  IF "job_titles" \in DOMAIN sp /\ sp["job_titles"] # <<>>
        THEN skills_part \o COMMA \o PyJoin(COMMA, sp["job_titles"])
        ELSE skills_part

\* s is a substring of t
IsSubstring(s, t) ==
    \E i \in 0..(Len(t) - Len(s)) : \A j \in 1..Len(s) : t[i + j] = s[j]

\* 'hits' in v: "true", "false", or "TypeError" for a value that is no container
HitsIn(v) ==
    CASE v.t = "object" -> IF "hits" \in DOMAIN v.fields THEN "true" ELSE "false"
      [] v.t = "list" -> IF \E i \in 1..Len(v.items) : v.items[i] = JStr(HITS)
                         THEN "true" ELSE "false"
      [] v.t = "string" -> IF IsSubstring(HITS, v.s) THEN "true" ELSE "false"
      [] OTHER -> "TypeError"

\* the path search_jobs takes on a response
SearchPath(resp) ==
    IF resp.status = 0 THEN "RequestException"
    ELSE IF resp.status >= 400 THEN "HTTPError"
    ELSE IF resp.body.json = None THEN "JSONDecodeError"
    ELSE IF HitsIn(resp.body.json[1]) = "true" THEN "return"
    ELSE IF HitsIn(resp.body.json[1]) = "false" THEN "unexpected format"
    ELSE "Exception"

\* return value of search_jobs
SearchResult(resp) ==
    IF SearchPath(resp) = "return" THEN Some(resp.body.json[1]) ELSE None

\* what search_jobs writes to the page
SearchMessages(resp) ==
    CASE SearchPath(resp) = "RequestException" -> <<Error("Error searching jobs")>>
      [] SearchPath(resp) = "HTTPError" ->
             <<Error("Error searching jobs"), Write("API Response Status:", resp.status),
               Write("API Response Body:", resp.body)>>
      [] SearchPath(resp) = "JSONDecodeError" ->
             <<Error("JSON decoding error"), Write("Response content:", resp.body)>>
      [] SearchPath(resp) = "unexpected format" ->
             <<Error("Unexpected response format from APIJobs.dev."),
               Write("Response content:", resp.body)>>
      [] SearchPath(resp) = "Exception" -> <<Error("An unexpected error occurred")>>
      [] OTHER -> <<>>

(***************************************************************************)
(* main(), lines 215-227: the postings are rendered.                       *)
(***************************************************************************)
JGet(job, k, dflt) == IF k \in DOMAIN job.fields THEN job.fields[k].s ELSE dflt

\* one posting: the exception its rendering raises ("none" if none), and what is written before
RenderHit(job) ==
    IF "title" \notin DOMAIN job.fields THEN [exc |-> "KeyError", out |-> <<>>]
    ELSE LET head == <<[kind |-> "expander", text |-> job.fields["title"].s,
                        company |-> JGet(job, "websiteName", NA),
                        location |-> JGet(job, "locationName", NA)]>>
         IN  IF "description" \notin DOMAIN job.fields
             THEN [exc |-> "KeyError", out |-> head]
             ELSE [exc |-> "none",
                   out |-> head \o <<Write("**Description:**", job.fields["description"].s)>>
                               \o (IF "url" \in DOMAIN job.fields
                                   THEN <<Write("Apply Now", job.fields["url"].s)>> ELSE <<>>)]

RECURSIVE RenderHits(_)
RenderHits(items) ==
    IF items = <<>> THEN [exc |-> "none", out |-> <<>>]
    ELSE LET first == RenderHit(Head(items))
         IN  IF first.exc # "none" THEN first
             ELSE LET rest == RenderHits(Tail(items))
                  IN  [exc |-> rest.exc, out |-> first.out \o rest.out]

\* lines 215-227 on the value search_jobs returned
Render(j) ==
    IF j = None
    THEN [exc |-> "none",
          out |-> <<Warning("No matching jobs found. Try adjusting your search filters.")>>]
    ELSE LET head == <<[kind |-> "subheader", text |-> "Matching Jobs"]>>
         IN  IF j[1].t # "object" THEN [exc |-> "TypeError", out |-> head]
             ELSE IF j[1].fields["hits"].t # "list" THEN [exc |-> "TypeError", out |-> head]
             ELSE LET body == RenderHits(j[1].fields["hits"].items)
                  IN  [exc |-> body.exc, out |-> head \o body.out]

(***************************************************************************)
(* The script run.                                                         *)
(***************************************************************************)
Unbound == [skills |-> <<>>, experience |-> EmptyStr, job_titles |-> <<>>]

Init ==
    /\ pc = "idle"
    /\ exc = "none"
    /\ uploaded_file = None
    /\ tmp_file_exists = FALSE
    /\ resume_text = None
    /\ heap = <<>>
    /\ resume_analysis = 0
    /\ search_params = 0
    /\ defaults = Unbound
    /\ selected = Unbound
    /\ completion_calls = 0
    /\ search_requests = <<>>
    /\ response = None
    /\ jobs = None
    /\ ui = <<>>

Running(at) == pc = at /\ exc = "none"

\* line 147: the script starts with the uploader holding a document or nothing
StartRun ==
    /\ Running("idle")
    /\ \E f \in {None} \cup {Some(d) : d \in Documents} : uploaded_file' = f
    /\ pc' = "uploaded"
    /\ UNCHANGED <<exc, tmp_file_exists, resume_text, heap, resume_analysis, search_params,
                   defaults, selected, completion_calls, search_requests, response, jobs, ui>>

\* lines 229-230: nothing uploaded
NoFile ==
    /\ Running("uploaded")
    /\ uploaded_file = None
    /\ ui' = Append(ui, Info("Please upload your resume in PDF format to get started!"))
    /\ pc' = "done"
    /\ UNCHANGED <<exc, uploaded_file, tmp_file_exists, resume_text, heap, resume_analysis,
                   search_params, defaults, selected, completion_calls, search_requests,
                   response, jobs>>

\* line 151: extract_text_from_pdf(uploaded_file)
ExtractTextFromPdf ==
    /\ Running("uploaded")
    /\ uploaded_file # None
    /\ resume_text' = ExtractedText(uploaded_file[1])
    /\ tmp_file_exists' = TmpFileLeft(uploaded_file[1])
    /\ ui' = IF ExtractRaises(uploaded_file[1])
             THEN Append(ui, Error("Error extracting text from PDF")) ELSE ui
    /\ pc' = "extracted"
    /\ UNCHANGED <<exc, uploaded_file, heap, resume_analysis, search_params, defaults,
                   selected, completion_calls, search_requests, response, jobs>>

\* line 153: resume_text is None or empty, nothing else runs
SkipPipeline ==
    /\ Running("extracted")
    /\ ~TruthyText(resume_text)
    /\ pc' = "done"
    /\ UNCHANGED <<exc, uploaded_file, tmp_file_exists, resume_text, heap, resume_analysis,
                   search_params, defaults, selected, completion_calls, search_requests,
                   response, jobs, ui>>

\* line 158: analyze_resume_with_gemini(resume_text)
AnalyzeResume ==
    /\ Running("extracted")
    /\ TruthyText(resume_text)
    /\ completion_calls' = completion_calls + 1
    /\ \/ \* generate_content or response.text raises: lines 82-84
          /\ ui' = ui \o <<[kind |-> "subheader", text |-> "Resume Analysis"],
                           Error("Error analyzing resume with Gemini")>>
          /\ UNCHANGED <<heap, resume_analysis>>
       \/ \E reply \in Replies :
              /\ ui' = ui \o <<[kind |-> "subheader", text |-> "Resume Analysis"]>>
                          \o AnalysisMessages(reply)
              /\ IF AnalysisResult(reply) = None
                 THEN UNCHANGED <<heap, resume_analysis>>
                 ELSE /\ heap' = Append(heap, AnalysisResult(reply)[1])
                      /\ resume_analysis' = Len(heap) + 1
    /\ pc' = "display"
    /\ UNCHANGED <<exc, uploaded_file, tmp_file_exists, resume_text, search_params, defaults,
                   selected, search_requests, response, jobs>>

\* lines 160-174
DisplayAnalysis ==
    /\ Running("display")
    /\ IF TruthyDict(heap, resume_analysis)
       THEN /\ ui' = ui \o DisplayWrites(heap[resume_analysis], DisplayedKeys)
            /\ exc' = IF DisplayRaises(heap[resume_analysis]) THEN "KeyError" ELSE "none"
            /\ pc' = IF DisplayRaises(heap[resume_analysis]) THEN pc ELSE "filters"
       ELSE /\ pc' = "filters"
            /\ UNCHANGED <<ui, exc>>
    /\ UNCHANGED <<uploaded_file, tmp_file_exists, resume_text, heap, resume_analysis,
                   search_params, defaults, selected, completion_calls, search_requests,
                   response, jobs>>

\* lines 177-184
BuildDefaultFilters ==
    /\ Running("filters")
    /\ LET new == NewSearchParams(heap, resume_analysis)
       IN  /\ heap' = new.heap
           /\ search_params' = new.ref
           /\ defaults' = [skills |-> DefaultSkills(new.heap[new.ref]),
                           experience |-> DefaultExperience(new.heap[new.ref]),
                           job_titles |-> DefaultJobTitles(new.heap[new.ref])]
    /\ ui' = Append(ui, [kind |-> "subheader", text |-> "Job Search Filters"])
    /\ pc' = "widgets"
    /\ UNCHANGED <<exc, uploaded_file, tmp_file_exists, resume_text, resume_analysis,
                   selected, completion_calls, search_requests, response, jobs>>

\* lines 187-203: the three controls, each returning what the user has chosen
PresentFilters ==
    /\ Running("widgets")
    /\ LET sp == heap[search_params]
           skills_widget == Widget("multiselect", "Skills to focus on:",
                                   DictGet(sp, "skills", <<>>))
           level_widget == Widget("selectbox", "Experience Level:", ExperienceOptions)
           titles_widget == Widget("multiselect", "Job Titles to search for:",
                                   DictGet(sp, "job_titles", <<>>))
       IN  IF IndexRaises(ExperienceOptions, defaults.experience)
           THEN /\ exc' = "ValueError"
                /\ ui' = Append(ui, skills_widget)
                /\ UNCHANGED <<pc, selected>>
           ELSE /\ \E s \in Selections(DictGet(sp, "skills", <<>>)),
                      e \in {ExperienceOptions[i] : i \in 1..Len(ExperienceOptions)},
                      t \in Selections(DictGet(sp, "job_titles", <<>>)) :
                        selected' = [skills |-> s, experience |-> e, job_titles |-> t]
                /\ ui' = ui \o <<skills_widget, level_widget, titles_widget>>
                /\ pc' = "edits"
                /\ UNCHANGED exc
    /\ UNCHANGED <<uploaded_file, tmp_file_exists, resume_text, heap, resume_analysis,
                   search_params, defaults, completion_calls, search_requests, response, jobs>>

\* lines 206-208
ApplyUserEdits ==
    /\ Running("edits")
    /\ heap' = [heap EXCEPT ![search_params] = UpdatedParams(@, selected)]
    /\ pc' = "button"
    /\ UNCHANGED <<exc, uploaded_file, tmp_file_exists, resume_text, resume_analysis,
                   search_params, defaults, selected, completion_calls, search_requests,
                   response, jobs, ui>>

\* line 211: the button was not the interaction that started this run
ButtonNotPressed ==
    /\ Running("button")
    /\ pc' = "done"
    /\ UNCHANGED <<exc, uploaded_file, tmp_file_exists, resume_text, heap, resume_analysis,
                   search_params, defaults, selected, completion_calls, search_requests,
                   response, jobs, ui>>

\* lines 211-227: the button was pressed: search_jobs, then the postings
SearchMatchingJobs ==
    /\ Running("button")
    /\ \E resp \in Responses :
           LET shown == Render(SearchResult(resp))
           IN  /\ response' = Some(resp)
               /\ jobs' = SearchResult(resp)
               /\ ui' = ui \o SearchMessages(resp) \o shown.out
               /\ exc' = shown.exc
               /\ pc' = IF shown.exc = "none" THEN "done" ELSE pc
    /\ search_requests' = Append(search_requests, SearchQuery(heap[search_params]))
    /\ UNCHANGED <<uploaded_file, tmp_file_exists, resume_text, heap, resume_analysis,
                   search_params, defaults, selected, completion_calls>>

\* the next interaction runs the script again from the top
Rerun ==
    /\ pc = "done" \/ exc # "none"
    /\ pc' = "idle"
    /\ exc' = "none"
    /\ uploaded_file' = None
    /\ tmp_file_exists' = FALSE
    /\ resume_text' = None
    /\ heap' = <<>>
    /\ resume_analysis' = 0
    /\ search_params' = 0
    /\ defaults' = Unbound
    /\ selected' = Unbound
    /\ completion_calls' = 0
    /\ search_requests' = <<>>
    /\ response' = None
    /\ jobs' = None
    /\ ui' = <<>>

Next ==
    \/ StartRun
    \/ NoFile
    \/ ExtractTextFromPdf
    \/ SkipPipeline
    \/ AnalyzeResume
    \/ DisplayAnalysis
    \/ BuildDefaultFilters
    \/ PresentFilters
    \/ ApplyUserEdits
    \/ ButtonNotPressed
    \/ SearchMatchingJobs
    \/ Rerun

Spec == Init /\ [][Next]_vars

(***************************************************************************)
(* Properties.                                                             *)
(***************************************************************************)
\* the analysis main() holds as a profile: the dict analyze returned, when it is truthy
HasProfile == TruthyDict(heap, resume_analysis)
Profile == heap[resume_analysis]

\* analyze_resume_with_gemini was called and returned None
AnalysisFailed == completion_calls > 0 /\ resume_analysis = 0

FiltersBuilt == search_params # 0
FiltersPresented == Shown("multiselect", "Skills to focus on:")
Filters == heap[search_params]

IsExperienceLevel(s) == s \in {JUNIOR, MID_LEVEL, SENIOR}

\* C1: the experience level of the filters built from a profile is always one
\* of junior, mid-level, senior: the profile's value lower-cased when that is
\* one of the three, and junior when it is empty or unrecognized.
C1_ExperienceIsEnumerated ==
    (FiltersBuilt /\ HasProfile /\ "experience_level" \in DOMAIN Profile) =>
        /\ IsExperienceLevel(defaults.experience)
        /\ defaults.experience =
               IF IsExperienceLevel(PyLower(Profile["experience_level"]))
               THEN PyLower(Profile["experience_level"]) ELSE JUNIOR

\* C2: whenever analyze returns a profile (the reply's span from its first
\* opening brace to its last closing brace is a well-formed JSON object), all
\* five keys are present in it.
C2_ProfileHasAllKeys ==
    resume_analysis # 0 => DOMAIN heap[resume_analysis] = ProfileKeys

\* C3: whenever extract has returned, on the success path and on every failure
\* path, the scratch file it created has been removed.
C3_ScratchFileRemoved ==
    pc \notin {"idle", "uploaded"} => ~tmp_file_exists

\* C4: the query string of every search request is exactly the comma-separated
\* join of filters.skills followed by filters.job_titles, with no leading,
\* trailing or doubled separator.
C4_QueryIsJoinOfSkillsThenTitles ==
    \A i \in 1..Len(search_requests) :
        search_requests[i] = PyJoin(COMMA, Filters["skills"] \o Filters["job_titles"])

\* C5 as stated: when analyze fails the pipeline halts: no filters are built or
\* presented and no search request is sent in that run.
C5_FailedAnalysisHalts ==
    AnalysisFailed => (~FiltersBuilt /\ ~FiltersPresented /\ search_requests = <<>>)

\* C5 as amended: when analyze fails no analysis is displayed, the filters are
\* built from an empty record (no skills, no job titles, default experience
\* junior), and every search request of that run carries the empty query.
C5_FailedAnalysisSearchesEmpty ==
    AnalysisFailed =>
        /\ ~Shown("write", "skills")
        /\ FiltersBuilt =>
               defaults = [skills |-> <<>>, experience |-> JUNIOR, job_titles |-> <<>>]
        /\ pc \in {"edits", "button", "done"} => FiltersPresented
        /\ \A i \in 1..Len(search_requests) : search_requests[i] = EmptyStr

C5_Witness ==
    AnalysisFailed /\ FiltersPresented /\ search_requests = <<EmptyStr>>

\* C6: whatever the three external calls answer, a run never ends with an
\* unhandled exception, and after any failure a new run can start.
C6_NoUnhandledException ==
    /\ exc = "none"
    /\ (pc = "done" \/ exc # "none") => ENABLED Rerun

\* C7: a 2xx response whose body is parseable JSON without a hits field yields
\* the unexpected-format error carrying the raw body, and no postings.
C7_MissingHitsIsUnexpectedFormat ==
    (/\ response # None
     /\ response[1].status \in 200..299
     /\ response[1].body.json # None
     /\ ~(response[1].body.json[1].t = "object"
            /\ "hits" \in DOMAIN response[1].body.json[1].fields)) =>
        /\ jobs = None
        /\ exc = "none"
        /\ Shown("error", "Unexpected response format from APIJobs.dev.")
        /\ \E i \in 1..Len(ui) :
               /\ ui[i].kind = "write"
               /\ ui[i].text = "Response content:"
               /\ ui[i].data = response[1].body

\* C8: the default skills are exactly the first min(3, length) entries of
\* profile.skills in their original order.
C8_DefaultSkillsAreFirstThree ==
    FiltersBuilt =>
        LET skills == IF HasProfile /\ "skills" \in DOMAIN Profile
                      THEN Profile["skills"] ELSE <<>>
        IN  /\ Len(defaults.skills) <= 3
            /\ Len(defaults.skills) <= Len(skills)
            /\ Len(defaults.skills) = 3 \/ Len(defaults.skills) = Len(skills)
            /\ \A i \in 1..Len(defaults.skills) : defaults.skills[i] = skills[i]

C8_Witness ==
    /\ FiltersBuilt
    /\ HasProfile
    /\ Len(Profile["skills"]) > 3
    /\ defaults.skills = <<Skill(1), Skill(2), Skill(3)>>

\* C9: applying the user's edits overwrites exactly skills, experience_level
\* and job_titles of the filters with the selected values, leaves industry and
\* preferred_location as in the profile, and leaves the profile unchanged.
C9_EditsOverwriteThreeFields ==
    [][(pc = "edits" /\ pc' = "button") =>
          /\ heap'[search_params]["skills"] = selected.skills
          /\ heap'[search_params]["experience_level"] = selected.experience
          /\ heap'[search_params]["job_titles"] = selected.job_titles
          /\ HasProfile =>
                 /\ DOMAIN heap'[search_params] = DOMAIN Profile
                 /\ \A k \in DOMAIN Profile \cap {"industry", "preferred_location"} :
                        heap'[search_params][k] = Profile[k]
                 /\ heap'[resume_analysis] = heap[resume_analysis]
      ]_vars

C9_Witness ==
    /\ pc = "button"
    /\ HasProfile
    /\ Filters["skills"] # Profile["skills"]
    /\ Filters["experience_level"] # Profile["experience_level"]
    /\ Filters["job_titles"] # Profile["job_titles"]
    /\ "preferred_location" \in DOMAIN Filters
    /\ Filters["industry"] = Profile["industry"]

\* C10: the completion service is called, filters are presented and a search
\* request is issued only in a run where extract returned a non-empty text.
C10_NothingRunsWithoutText ==
    (completion_calls > 0 \/ FiltersBuilt \/ FiltersPresented \/ search_requests # <<>>) =>
        (resume_text # None /\ Len(resume_text[1]) > 0)

C10_Witness ==
    /\ pc = "done"
    /\ uploaded_file # None
    /\ resume_text = Some(EmptyStr)
    /\ completion_calls = 0
    /\ ~FiltersPresented
    /\ search_requests = <<>>

====
